---- MODULE Spec2Model ----
(***************************************************************************)
(* Model of the analytics dispatch layer of analytics-metrics-typescript: *)
(* identity management (userIdentification.ts), event enrichment and the  *)
(* tracking utilities (analytics.ts), remote configuration loading        *)
(* (supabaseConfig.ts) and the bootstrap component (AnalyticsProvider.tsx)*)
(***************************************************************************)
EXTENDS Integers, Sequences, FiniteSets, TLC

VARIABLES
    localStorage,     \* durable Storage: a function whose DOMAIN is the set of keys present
    sessionStorage,   \* volatile Storage, same representation
    nextUuid,         \* number of uuidv4() values drawn so far
    now,              \* the wall clock read by Date.now() / new Date()
    lastOp,           \* name of the operation that ran last
    lastRet,          \* value returned by the last getAnonymousId / getSessionId call
    sessionIds,       \* every session id getSessionId has generated so far
    lastCall,         \* the last call made on the Analytics instance
    received,         \* per plugin: the handlers the Analytics instance has invoked
    config,           \* configLoader's resolved key/value snapshot
    updateCalls,      \* number of configLoader.updateRemoteConfig calls
    bootPc,           \* position of initializeAnalytics
    fetchResult,      \* how the fetch settled and what loadRemoteConfig returned or threw
    isConfigLoaded,   \* React state of AnalyticsProvider
    analyticsConfig,  \* React state of AnalyticsProvider
    childrenRendered, \* whether AnalyticsProvider has rendered its children
    loaderCalls,      \* provider loaders invoked by initializeAnalytics
    loaderThrew,      \* provider loaders whose call threw out of initializeAnalytics
    posthogInit,      \* outcome of posthog.init inside initializePostHog
    lastGet,          \* the last configLoader.getValue call and what it returned
    userAgent,        \* navigator.userAgent, as the sequence of its product tokens
    measurementId,    \* googleAnalyticsPlugin.config.measurementId
    window            \* what the Google Analytics plugin has put on the window object

identityVars == <<localStorage, sessionStorage, nextUuid, now, lastRet, sessionIds, userAgent>>
dispatchVars == <<lastCall, received, measurementId, window>>
bootVars == <<config, updateCalls, bootPc, fetchResult, isConfigLoaded,
              analyticsConfig, childrenRendered, loaderCalls, loaderThrew, posthogInit,
              lastGet>>
vars == <<identityVars, dispatchVars, bootVars, lastOp>>

(***************************************************************************)
(* Bounds                                                                  *)
(***************************************************************************)
MaxUuid == 3     \* uuidv4() values available in one run
MaxTime == 1     \* clock ticks in one run
MaxUaLen == 3    \* product tokens in a user agent

(***************************************************************************)
(* Values.  Strings built by the program are tagged records so that an    *)
(* anonymous id, a session id, a timestamp and a caller value are never   *)
(* confused: `anon_${uuid}` is Val("anon", n), and so on.                  *)
(***************************************************************************)
Val(tag, n) == [tag |-> tag, n |-> n]

ANONYMOUS_ID_KEY == "anonymousId"
SESSION_ID_KEY == "sessionId"

EmptyStore == [k \in {} |-> 0]

\* Storage.getItem(key) !== null-and-non-empty: the code tests `!value`
HasItem(store, key) == key \in DOMAIN store

\* Storage.setItem(key, value)
SetItem(store, key, value) ==
    [k \in DOMAIN store \cup {key} |-> IF k = key THEN value ELSE store[k]]

\* Number.prototype.toString() of a non-negative integer, as a digit string
RECURSIVE toString(_)
toString(n) == IF n < 10 THEN <<n>> ELSE Append(toString(n \div 10), n % 10)

\* Number(str) of a decimal digit string; Number('') is 0
RECURSIVE Number(_)
Number(s) ==
    IF Len(s) = 0 THEN 0
    ELSE 10 * Number(SubSeq(s, 1, Len(s) - 1)) + s[Len(s)]

(***************************************************************************)
(* Identity manager (userIdentification.ts)                                *)
(***************************************************************************)
\* Mutant of getAnonymousId: the new id is returned but never persisted
getAnonymousIdNotStored(ls, u, t) ==
    IF HasItem(ls, ANONYMOUS_ID_KEY)
    THEN [ret |-> ls[ANONYMOUS_ID_KEY], ls |-> ls, uuid |-> u]
    ELSE [ret |-> Val("anon", u + 1), ls |-> ls, uuid |-> u + 1]

\* Mutant of getAnonymousId: the stored id is ignored and a new one written
getAnonymousIdRegenerated(ls, u, t) ==
    [ret |-> Val("anon", u + 1),
     ls |-> SetItem(SetItem(SetItem(ls, ANONYMOUS_ID_KEY, Val("anon", u + 1)),
                            "firstSeen", Val("iso", t)),
                    "sessionCount", <<1>>),
     uuid |-> u + 1]

\* getAnonymousId(): u is the number of uuids drawn so far, t the clock.
\* The result carries the return value and the storage after the call.
getAnonymousId(ls, u, t) ==
    IF HasItem(ls, ANONYMOUS_ID_KEY)
    THEN [ret |-> ls[ANONYMOUS_ID_KEY], ls |-> ls, uuid |-> u]
    ELSE [ret |-> Val("anon", u + 1),
          ls |-> SetItem(SetItem(SetItem(ls, ANONYMOUS_ID_KEY, Val("anon", u + 1)),
                                 "firstSeen", Val("iso", t)),
                         "sessionCount", <<1>>),
          uuid |-> u + 1]

\* Number(localStorage.getItem('sessionCount') || '0')
StoredSessionCount(ls) ==
    Number(IF HasItem(ls, "sessionCount") THEN ls["sessionCount"] ELSE <<0>>)

\* Mutant of getSessionId: the stored session id is ignored and a new one written
getSessionIdRegenerated(ls, ss, u) ==
    [ret |-> Val("session", u + 1),
     ls |-> SetItem(ls, "sessionCount", toString(StoredSessionCount(ls) + 1)),
     ss |-> SetItem(ss, SESSION_ID_KEY, Val("session", u + 1)),
     uuid |-> u + 1]

\* Mutant of getSessionId: the counter is written back without the increment
getSessionIdNotCounted(ls, ss, u) ==
    IF HasItem(ss, SESSION_ID_KEY)
    THEN [ret |-> ss[SESSION_ID_KEY], ls |-> ls, ss |-> ss, uuid |-> u]
    ELSE [ret |-> Val("session", u + 1),
          ls |-> SetItem(ls, "sessionCount", toString(StoredSessionCount(ls))),
          ss |-> SetItem(ss, SESSION_ID_KEY, Val("session", u + 1)),
          uuid |-> u + 1]

\* getSessionId(): reads and writes both stores.
getSessionId(ls, ss, u) ==
    IF HasItem(ss, SESSION_ID_KEY)
    THEN [ret |-> ss[SESSION_ID_KEY], ls |-> ls, ss |-> ss, uuid |-> u]
    ELSE LET sessionCount == StoredSessionCount(ls)
         IN [ret |-> Val("session", u + 1),
             ls |-> SetItem(ls, "sessionCount", toString(sessionCount + 1)),
             ss |-> SetItem(ss, SESSION_ID_KEY, Val("session", u + 1)),
             uuid |-> u + 1]

(***************************************************************************)
(* Enrichment and the tracking utilities (analytics.ts)                    *)
(***************************************************************************)
\* Object spread { ...a, ...b }: keys of b overwrite keys of a
Spread(a, b) ==
    [k \in DOMAIN a \cup DOMAIN b |-> IF k \in DOMAIN b THEN b[k] ELSE a[k]]

SystemFields == {"anonymousId", "sessionId", "timestamp"}

\* Mutant of enrichEventProperties: the caller's bag is spread last
enrichCallerLast(properties, ls, ss, u, t) ==
    LET a == getAnonymousId(ls, u, t)
        s == getSessionId(a.ls, ss, a.uuid)
        system == [k \in SystemFields |->
                      CASE k = "anonymousId" -> a.ret
                        [] k = "sessionId" -> s.ret
                        [] k = "timestamp" -> Val("ts", t)]
    IN [props |-> Spread(system, properties), ls |-> s.ls, ss |-> s.ss, uuid |-> s.uuid]

\* enrichEventProperties(properties): the object literal is evaluated in
\* order: the spread, getAnonymousId(), getSessionId(), Date.now().
enrichEventProperties(properties, ls, ss, u, t) ==
    LET a == getAnonymousId(ls, u, t)
        s == getSessionId(a.ls, ss, a.uuid)
        system == [k \in SystemFields |->
                      CASE k = "anonymousId" -> a.ret
                        [] k = "sessionId" -> s.ret
                        [] k = "timestamp" -> Val("ts", t)]
    IN [props |-> Spread(properties, system), ls |-> s.ls, ss |-> s.ss, uuid |-> s.uuid]

\* The plugins passed to Analytics({ plugins: [...] }) and the handlers each defines
Plugins == {"console", "google-analytics", "posthog"}

Handlers(p) ==
    CASE p = "console" -> {"initialize", "page", "track", "identify"}
      [] p = "google-analytics" -> {"initialize", "page", "track"}
      [] p = "posthog" -> {"initialize", "page", "track", "identify"}

\* analytics.track / page / identify: the call reaches the handler of that
\* kind of every plugin of the instance that defines one
AnalyticsDispatch(rcv, kind) ==
    [p \in Plugins |-> IF kind \in Handlers(p) THEN rcv[p] \cup {kind} ELSE rcv[p]]

\* The window object before any script has run: no gtag function, no injected script,
\* no dataLayer entries
EmptyWindow == [gtag |-> FALSE, script |-> FALSE, dataLayer |-> {}]

\* Mutant of gaInitialize: the measurementId is not looked at
gaInitializeUnguarded(id, w) ==
    [gtag |-> TRUE, script |-> TRUE, dataLayer |-> w.dataLayer \cup {"js", "config"}]

\* googleAnalyticsPlugin.initialize({ config }): returns at once when measurementId is
\* empty; otherwise injects the gtag.js script, defines window.gtag and pushes 'js' and
\* 'config'
gaInitialize(id, w) ==
    IF id = "" THEN w
    ELSE [gtag |-> TRUE, script |-> TRUE, dataLayer |-> w.dataLayer \cup {"js", "config"}]

\* googleAnalyticsPlugin.page / track: window.gtag('event', ...) when window.gtag exists
gaPage(w) == IF w.gtag THEN [w EXCEPT !.dataLayer = @ \cup {"page_view"}] ELSE w
gaTrack(w) == IF w.gtag THEN [w EXCEPT !.dataLayer = @ \cup {"event"}] ELSE w

\* The Google Analytics plugin's share of analytics.track / page / identify
PluginDispatch(w, kind) ==
    CASE kind = "track" -> gaTrack(w)
      [] kind = "page" -> gaPage(w)
      [] OTHER -> w

NoCall == [kind |-> "none", name |-> Val("none", 0), props |-> EmptyStore,
           caller |-> EmptyStore]

\* Inputs of the producers
PropKeys == {"anonymousId", "sessionId", "timestamp", "path", "feature"}
CallerProps ==
    {[k \in S |-> Val("caller", 0)] :
        S \in {{}} \cup {{k} : k \in PropKeys} \cup {{"sessionId", "feature"}}}
EventNames == {Val("event", 1)}
Paths == {Val("path", 1)}
UserIds == {Val("user", 1)}

(***************************************************************************)
(* Configuration (configLoader, supabaseConfig.ts)                         *)
(***************************************************************************)
ConfigKeys == {"GA_TRACKING_ID", "CLARITY_PROJECT_ID", "POSTHOG_API_KEY", "POSTHOG_HOST_URL"}

\* Local defaults the configLoader can start from, and remote responses
LocalConfigs == {[k \in S |-> "local"] : S \in SUBSET ConfigKeys}
Responses == UNION {[S -> {"", "remote"}] : S \in SUBSET ConfigKeys}
\* supabase.functions.invoke settles with an error, with no data, or with data
FetchOutcomes ==
    {[error |-> TRUE, data |-> EmptyStore, hasData |-> FALSE],
     [error |-> FALSE, data |-> EmptyStore, hasData |-> FALSE]}
    \cup {[error |-> FALSE, data |-> r, hasData |-> TRUE] : r \in Responses}

\* Mutant of getValue: only a missing key falls back (?? instead of ||)
getValueNullish(cfg, key, defaultValue) ==
    IF key \in DOMAIN cfg THEN cfg[key] ELSE defaultValue

\* configLoader.getValue(key, defaultValue = ''): this.config[key] || defaultValue
getValue(cfg, key, defaultValue) ==
    IF key \in DOMAIN cfg /\ cfg[key] # "" THEN cfg[key] ELSE defaultValue

\* Mutant of updateRemoteConfig: the response replaces the snapshot wholesale
updateRemoteConfigReplaced(cfg, response) == response

\* configLoader.updateRemoteConfig(response): remote pairs override local ones key by key
updateRemoteConfig(cfg, response) == Spread(cfg, response)

\* Mutant of loadRemoteConfig: the check for a missing response is left out
loadRemoteConfigUnchecked(cfg, outcome) ==
    IF outcome.error
    THEN [threw |-> TRUE, ret |-> EmptyStore, config |-> cfg, updated |-> 0]
    ELSE [threw |-> FALSE, ret |-> outcome.data,
          config |-> updateRemoteConfig(cfg, outcome.data), updated |-> 1]

\* loadRemoteConfig(): throws on error or on a missing response, otherwise
\* updates the configLoader and returns the response
loadRemoteConfig(cfg, outcome) ==
    IF outcome.error \/ ~outcome.hasData
    THEN [threw |-> TRUE, ret |-> EmptyStore, config |-> cfg, updated |-> 0]
    ELSE [threw |-> FALSE, ret |-> outcome.data,
          config |-> updateRemoteConfig(cfg, outcome.data), updated |-> 1]

NoGet == [key |-> "", defaultValue |-> "", ret |-> ""]
NoOutcome == [error |-> FALSE, data |-> EmptyStore, hasData |-> FALSE]
NoFetch == [status |-> "none", ret |-> EmptyStore, outcome |-> NoOutcome]

(***************************************************************************)
(* Bootstrap (AnalyticsProvider.tsx, providers/postHog.ts)                 *)
(***************************************************************************)
InitialAnalyticsConfig ==
    [googleAnalytics |-> [enabled |-> FALSE, trackingId |-> ""],
     clarity |-> [enabled |-> FALSE, projectId |-> ""],
     postHog |-> [enabled |-> FALSE, apiKey |-> "", hostUrl |-> ""]]

\* The config object initializeAnalytics builds after loadRemoteConfig returned
ResolvedAnalyticsConfig(cfg) ==
    [googleAnalytics |-> [enabled |-> TRUE, trackingId |-> getValue(cfg, "GA_TRACKING_ID", "")],
     clarity |-> [enabled |-> TRUE, projectId |-> getValue(cfg, "CLARITY_PROJECT_ID", "")],
     postHog |-> [enabled |-> TRUE, apiKey |-> getValue(cfg, "POSTHOG_API_KEY", ""),
                  hostUrl |-> getValue(cfg, "POSTHOG_HOST_URL", "")]]

\* Mutant of LoadersFor: one missing key keeps every loader from being invoked
LoadersForAllOrNone(c) ==
    IF /\ c.googleAnalytics.enabled /\ c.googleAnalytics.trackingId # ""
       /\ c.clarity.enabled /\ c.clarity.projectId # ""
       /\ c.postHog.enabled /\ c.postHog.apiKey # "" /\ c.postHog.hostUrl # ""
    THEN {"googleAnalytics", "clarity", "postHog"}
    ELSE {}

\* The loaders initializeAnalytics invokes for a config object
LoadersFor(c) ==
    (IF c.googleAnalytics.enabled /\ c.googleAnalytics.trackingId # ""
     THEN {"googleAnalytics"} ELSE {})
    \cup (IF c.clarity.enabled /\ c.clarity.projectId # "" THEN {"clarity"} ELSE {})
    \cup (IF c.postHog.enabled /\ c.postHog.apiKey # "" /\ c.postHog.hostUrl # ""
          THEN {"postHog"} ELSE {})

\* initializePostHog(apiKey, hostUrl); initThrows says whether posthog.init throws
initializePostHog(apiKey, hostUrl, initThrows) ==
    IF apiKey = "" \/ hostUrl = "" THEN "skipped"
    ELSE IF initThrows THEN "threw" ELSE "initialized"

\* The loaders whose call can throw out of initializeAnalytics:
\* initializePostHog catches what posthog.init throws, the other two are
\* called bare
ThrowingLoaders == {"googleAnalytics", "clarity"}

\* The three `if` statements that end initializeAnalytics, run in order for
\* the config object c; throws is the set of loaders that throw when called.
\* A loader that throws ends the function: the statements after it do not run.
RunLoaders(c, throws, initThrows) ==
    LET wanted == LoadersFor(c)
        gaCalled == "googleAnalytics" \in wanted
        gaThrew == gaCalled /\ "googleAnalytics" \in throws
        clarityCalled == ~gaThrew /\ "clarity" \in wanted
        clarityThrew == clarityCalled /\ "clarity" \in throws
        postHogCalled == ~gaThrew /\ ~clarityThrew /\ "postHog" \in wanted
    IN [calls |-> (IF gaCalled THEN {"googleAnalytics"} ELSE {})
                  \cup (IF clarityCalled THEN {"clarity"} ELSE {})
                  \cup (IF postHogCalled THEN {"postHog"} ELSE {}),
        threw |-> (IF gaThrew THEN {"googleAnalytics"} ELSE {})
                  \cup (IF clarityThrew THEN {"clarity"} ELSE {}),
        posthog |-> IF postHogCalled
                    THEN initializePostHog(c.postHog.apiKey, c.postHog.hostUrl, initThrows)
                    ELSE "none"]

(***************************************************************************)
(* The event catalog (types/analytics.ts) and trackError                   *)
(***************************************************************************)
\* enum EventType: its members in declaration order
EventTypeMembers ==
    <<"USER_SIGNED_UP", "USER_SIGNED_IN", "USER_SIGNED_OUT", "USER_UPDATED_PROFILE",
      "USER_DELETED_ACCOUNT",
      "FEATURE_VIEWED", "FEATURE_INTERACTION", "FEATURE_COMPLETED", "FEATURE_ERROR",
      "CONTENT_VIEWED", "CONTENT_CREATED", "CONTENT_UPDATED", "CONTENT_DELETED",
      "CONTENT_SHARED",
      "PAGE_VIEWED", "NAVIGATION_CLICKED", "EXTERNAL_LINK_CLICKED", "SEARCH_PERFORMED",
      "SETTINGS_UPDATED", "PREFERENCES_CHANGED", "NOTIFICATION_TOGGLED",
      "SUBSCRIPTION_STARTED", "SUBSCRIPTION_CANCELLED", "PAYMENT_INITIATED",
      "PAYMENT_COMPLETED", "PAYMENT_FAILED",
      "APP_ERROR", "API_ERROR", "VALIDATION_ERROR">>

\* The event kinds the catalog defines: Val("event", i) is the value of member i
EventCatalog == {Val("event", i) : i \in 1..Len(EventTypeMembers)}

\* EventType.member: the member's value, or undefined when the enum object has no such
\* property
EventType(member) ==
    IF \E i \in 1..Len(EventTypeMembers) : EventTypeMembers[i] = member
    THEN Val("event", CHOOSE i \in 1..Len(EventTypeMembers) : EventTypeMembers[i] = member)
    ELSE Val("undefined", 0)

\* Inputs of trackError: Error objects, contexts and additionalData bags
Errors == {[name |-> Val("errorName", n), message |-> Val("errorMessage", n),
            stack |-> Val("errorStack", n)] : n \in 1..2}
Contexts == {Val("context", 1)}
AdditionalData == {EmptyStore, [k \in {"feature"} |-> Val("caller", 0)]}

\* The object literal trackError passes to trackEvent
ErrorProperties(error, context, additionalData) ==
    Spread([errorCode |-> error.name, errorMessage |-> error.message,
            errorStack |-> error.stack, context |-> context],
           additionalData)

(***************************************************************************)
(* navigator.userAgent and the two classifiers of userIdentification.ts.   *)
(* A user agent is the sequence of its product tokens; a token is a word   *)
(* and the version that follows its slash ("" when there is none).  The    *)
(* regular expressions search for substrings, so each alternative is the   *)
(* set of words that contain it.                                           *)
(***************************************************************************)
Token(w, v) == [w |-> w, v |-> v]

\* words containing tablet|ipad|playbook|silk, case ignored
TabletWords == {"Tablet", "iPad", "PlayBook", "Silk", "Silk-Accelerated"}
\* words containing android, case ignored
AndroidWords == {"Android"}
\* words containing mobi, case ignored
MobiWords == {"Mobile", "IEMobile", "Opera Mobi"}
\* words matching the second, case-sensitive expression
MobileWords == {"Mobile", "Android", "iPhone", "iPod", "IEMobile", "BlackBerry", "Kindle",
                "Silk-Accelerated", "hpwOS", "webOS", "Opera Mobi", "Opera Mini"}
SafariWords == {"Safari"}

\* /(tablet|ipad|playbook|silk)|(android(?!.*mobi))/i.test(ua)
TabletPattern(ua) ==
    \/ \E i \in 1..Len(ua) : ua[i].w \in TabletWords
    \/ \E i \in 1..Len(ua) : /\ ua[i].w \in AndroidWords
                             /\ \A j \in (i + 1)..Len(ua) : ua[j].w \notin MobiWords

\* /Mobile|Android|iP(hone|od)|IEMobile|BlackBerry|Kindle|Silk-Accelerated|(hpw|web)OS|
\* Opera M(obi|ini)/.test(ua)
MobilePattern(ua) == \E i \in 1..Len(ua) : ua[i].w \in MobileWords

\* Mutant of getDeviceType: the mobile expression is tested first
getDeviceTypeMobileFirst(ua) ==
    IF MobilePattern(ua) THEN "mobile"
    ELSE IF TabletPattern(ua) THEN "tablet"
         ELSE "desktop"

getDeviceType(ua) ==
    IF TabletPattern(ua) THEN "tablet"
    ELSE IF MobilePattern(ua) THEN "mobile"
         ELSE "desktop"

\* ua.match(regex) for the four browser expressions: the positions where the expression
\* matches; match[1] is the version at the leftmost one
BrowserMatches(ua, name) ==
    CASE name = "Chrome"  -> {i \in 1..Len(ua) : ua[i].w = "Chrome" /\ ua[i].v # ""}
      [] name = "Firefox" -> {i \in 1..Len(ua) : ua[i].w = "Firefox" /\ ua[i].v # ""}
      [] name = "Safari"  -> {i \in 1..Len(ua) :
                                 /\ ua[i].w = "Version" /\ ua[i].v # ""
                                 /\ \E j \in (i + 1)..Len(ua) : ua[j].w \in SafariWords}
      [] name = "Edge"    -> {i \in 1..Len(ua) : ua[i].w = "Edg" /\ ua[i].v # ""}

browserRegexes == <<"Chrome", "Firefox", "Safari", "Edge">>

Leftmost(S) == CHOOSE i \in S : \A j \in S : i =< j

\* Mutant of getBrowserInfo: the last matching expression wins
getBrowserInfoLastMatch(ua) ==
    LET hits == {b \in 1..Len(browserRegexes) : BrowserMatches(ua, browserRegexes[b]) # {}}
    IN IF hits = {}
       THEN <<"Unknown Browser">>
       ELSE LET name == browserRegexes[CHOOSE b \in hits : \A c \in hits : c =< b]
            IN <<name, ua[Leftmost(BrowserMatches(ua, name))].v>>

\* `${browser.name} ${match[1]}` is the pair <<name, version>>
getBrowserInfo(ua) ==
    LET hits == {b \in 1..Len(browserRegexes) : BrowserMatches(ua, browserRegexes[b]) # {}}
    IN IF hits = {}
       THEN <<"Unknown Browser">>
       ELSE LET name == browserRegexes[Leftmost(hits)]
            IN <<name, ua[Leftmost(BrowserMatches(ua, name))].v>>

\* The product tokens user agents are composed of, and every user agent of at most
\* MaxUaLen tokens
UaTokens ==
    {Token("Windows", ""), Token("iPad", ""), Token("iPhone", ""), Token("Android", ""),
     Token("Mobile", ""), Token("Chrome", "120.0"), Token("Firefox", "121.0"),
     Token("Version", "17.0"), Token("Safari", "604.1"), Token("Edg", "120.0")}
AllUserAgents == UNION {[1..n -> UaTokens] : n \in 0..MaxUaLen}

\* User agents of the browsers the code distinguishes
DesktopChrome == <<Token("Windows", ""), Token("Chrome", "120.0"), Token("Safari", "537.36")>>
UserAgents ==
    {DesktopChrome,
     <<Token("iPad", ""), Token("Version", "17.0"), Token("Mobile", "15E148"),
       Token("Safari", "604.1")>>,
     <<Token("iPhone", ""), Token("Version", "17.0"), Token("Mobile", "15E148"),
       Token("Safari", "604.1")>>,
     <<Token("Android", ""), Token("Chrome", "120.0"), Token("Mobile", ""),
       Token("Safari", "537.36")>>,
     <<Token("Android", ""), Token("Chrome", "120.0"), Token("Safari", "537.36")>>,
     <<Token("Windows", ""), Token("Firefox", "121.0")>>,
     <<Token("Windows", ""), Token("Chrome", "120.0"), Token("Safari", "537.36"),
       Token("Edg", "120.0")>>,
     <<Token("curl", "8.4.0")>>}

\* The traits object of identifyAnonymousUser, read after both identifiers exist
UserTraits(ls, ua, t) ==
    [firstSeen |-> IF HasItem(ls, "firstSeen") THEN ls["firstSeen"] ELSE Val("iso", t),
     lastSeen |-> Val("iso", t),
     sessionCount |-> Number(IF HasItem(ls, "sessionCount") THEN ls["sessionCount"]
                             ELSE toString(1)),
     deviceType |-> getDeviceType(ua),
     browserInfo |-> getBrowserInfo(ua)]

(***************************************************************************)
(* Initial states                                                          *)
(***************************************************************************)
InitIdentity ==
    /\ localStorage = EmptyStore
    /\ sessionStorage = EmptyStore
    /\ nextUuid = 0
    /\ now = 0
    /\ lastOp = "init"
    /\ lastRet = Val("none", 0)
    /\ sessionIds = {}

\* Analytics({ plugins }) has registered the three plugins and initialized each
InitDispatch ==
    /\ lastCall = NoCall
    /\ received = [p \in Plugins |-> {"initialize"}]

InitBoot ==
    /\ updateCalls = 0
    /\ bootPc = "idle"
    /\ fetchResult = NoFetch
    /\ isConfigLoaded = FALSE
    /\ analyticsConfig = InitialAnalyticsConfig
    /\ childrenRendered = FALSE
    /\ loaderCalls = {}
    /\ loaderThrew = {}
    /\ posthogInit = "none"
    /\ lastGet = NoGet

\* Evaluation of the analytics module: the plugin object reads GA_TRACKING_ID from the
\* snapshot of that moment, and Analytics({ plugins }) runs its initialize
InitPlugin ==
    /\ measurementId = getValue(config, "GA_TRACKING_ID", "")
    /\ window = gaInitialize(measurementId, EmptyWindow)

Init ==
    /\ InitIdentity
    /\ InitDispatch
    /\ InitBoot
    /\ config = EmptyStore
    /\ userAgent = DesktopChrome
    /\ InitPlugin

BootInit ==
    /\ InitIdentity
    /\ InitDispatch
    /\ InitBoot
    /\ config \in LocalConfigs
    /\ userAgent = DesktopChrome
    /\ InitPlugin

\* The page runs in any of the browsers
IdentityInit ==
    /\ InitIdentity
    /\ InitDispatch
    /\ InitBoot
    /\ config = EmptyStore
    /\ userAgent \in UserAgents
    /\ InitPlugin

(***************************************************************************)
(* Identity and tracking operations                                        *)
(***************************************************************************)
GetAnonymousId ==
    LET r == getAnonymousId(localStorage, nextUuid, now)
    IN /\ r.uuid =< MaxUuid
       /\ localStorage' = r.ls
       /\ nextUuid' = r.uuid
       /\ lastRet' = r.ret
       /\ lastOp' = "getAnonymousId"
       /\ UNCHANGED <<sessionStorage, now, sessionIds, dispatchVars, bootVars, userAgent>>

GetSessionId ==
    LET r == getSessionId(localStorage, sessionStorage, nextUuid)
    IN /\ r.uuid =< MaxUuid
       /\ localStorage' = r.ls
       /\ sessionStorage' = r.ss
       /\ nextUuid' = r.uuid
       /\ lastRet' = r.ret
       /\ sessionIds' = sessionIds \cup {r.ss[SESSION_ID_KEY]}
       /\ lastOp' = "getSessionId"
       /\ UNCHANGED <<now, dispatchVars, bootVars, userAgent>>

\* trackEvent(event, properties): analytics.track(event, enrichEventProperties(properties))
TrackEvent(event, properties) ==
    LET e == enrichEventProperties(properties, localStorage, sessionStorage, nextUuid, now)
    IN /\ e.uuid =< MaxUuid
       /\ localStorage' = e.ls
       /\ sessionStorage' = e.ss
       /\ nextUuid' = e.uuid
       /\ sessionIds' = sessionIds \cup {e.ss[SESSION_ID_KEY]}
       /\ lastCall' = [kind |-> "track", name |-> event, props |-> e.props,
                       caller |-> properties]
       /\ received' = AnalyticsDispatch(received, "track")
       /\ window' = PluginDispatch(window, "track")
       /\ lastOp' = "trackEvent"
       /\ UNCHANGED <<now, lastRet, bootVars, userAgent, measurementId>>

\* trackPage(path, properties): analytics.page({ path, ...enrichEventProperties(properties) })
TrackPage(path, properties) ==
    LET e == enrichEventProperties(properties, localStorage, sessionStorage, nextUuid, now)
    IN /\ e.uuid =< MaxUuid
       /\ localStorage' = e.ls
       /\ sessionStorage' = e.ss
       /\ nextUuid' = e.uuid
       /\ sessionIds' = sessionIds \cup {e.ss[SESSION_ID_KEY]}
       /\ lastCall' = [kind |-> "page", name |-> path,
                       props |-> Spread([k \in {"path"} |-> path], e.props),
                       caller |-> properties]
       /\ received' = AnalyticsDispatch(received, "page")
       /\ window' = PluginDispatch(window, "page")
       /\ lastOp' = "trackPage"
       /\ UNCHANGED <<now, lastRet, bootVars, userAgent, measurementId>>

\* identifyUser(userId, traits): analytics.identify(userId, enrichEventProperties(traits))
IdentifyUser(userId, traits) ==
    LET e == enrichEventProperties(traits, localStorage, sessionStorage, nextUuid, now)
    IN /\ e.uuid =< MaxUuid
       /\ localStorage' = e.ls
       /\ sessionStorage' = e.ss
       /\ nextUuid' = e.uuid
       /\ sessionIds' = sessionIds \cup {e.ss[SESSION_ID_KEY]}
       /\ lastCall' = [kind |-> "identify", name |-> userId, props |-> e.props,
                       caller |-> traits]
       /\ received' = AnalyticsDispatch(received, "identify")
       /\ window' = PluginDispatch(window, "identify")
       /\ lastOp' = "identifyUser"
       /\ UNCHANGED <<now, lastRet, bootVars, userAgent, measurementId>>

\* trackError(error, context, additionalData):
\* trackEvent(EventType.CONFIGURATION_ERROR, { errorCode, errorMessage, errorStack, context,
\* ...additionalData })
TrackError(error, context, additionalData) ==
    LET properties == ErrorProperties(error, context, additionalData)
        e == enrichEventProperties(properties, localStorage, sessionStorage, nextUuid, now)
    IN /\ e.uuid =< MaxUuid
       /\ localStorage' = e.ls
       /\ sessionStorage' = e.ss
       /\ nextUuid' = e.uuid
       /\ sessionIds' = sessionIds \cup {e.ss[SESSION_ID_KEY]}
       /\ lastCall' = [kind |-> "track", name |-> EventType("CONFIGURATION_ERROR"),
                       props |-> e.props, caller |-> properties]
       /\ received' = AnalyticsDispatch(received, "track")
       /\ window' = PluginDispatch(window, "track")
       /\ lastOp' = "trackError"
       /\ UNCHANGED <<now, lastRet, bootVars, userAgent, measurementId>>

\* identifyAnonymousUser with the durable counter read before getSessionId has run
IdentifyAnonymousUserStaleCount ==
    LET a == getAnonymousId(localStorage, nextUuid, now)
        s == getSessionId(a.ls, sessionStorage, a.uuid)
        traits == Spread(UserTraits(a.ls, userAgent, now),
                         [sessionId |-> s.ret, isAnonymous |-> TRUE])
        e == enrichEventProperties(traits, s.ls, s.ss, s.uuid, now)
    IN /\ e.uuid =< MaxUuid
       /\ localStorage' = e.ls
       /\ sessionStorage' = e.ss
       /\ nextUuid' = e.uuid
       /\ sessionIds' = sessionIds \cup {e.ss[SESSION_ID_KEY]}
       /\ lastCall' = [kind |-> "identify", name |-> a.ret, props |-> e.props,
                       caller |-> traits]
       /\ received' = AnalyticsDispatch(received, "identify")
       /\ window' = PluginDispatch(window, "identify")
       /\ lastOp' = "identifyAnonymousUser"
       /\ UNCHANGED <<now, lastRet, bootVars, userAgent, measurementId>>

\* identifyAnonymousUser(): getAnonymousId, getSessionId, build the traits, then
\* identifyUser(anonymousId, { ...traits, sessionId, isAnonymous: true })
IdentifyAnonymousUser ==
    LET a == getAnonymousId(localStorage, nextUuid, now)
        s == getSessionId(a.ls, sessionStorage, a.uuid)
        traits == Spread(UserTraits(s.ls, userAgent, now),
                         [sessionId |-> s.ret, isAnonymous |-> TRUE])
        e == enrichEventProperties(traits, s.ls, s.ss, s.uuid, now)
    IN /\ e.uuid =< MaxUuid
       /\ localStorage' = e.ls
       /\ sessionStorage' = e.ss
       /\ nextUuid' = e.uuid
       /\ sessionIds' = sessionIds \cup {e.ss[SESSION_ID_KEY]}
       /\ lastCall' = [kind |-> "identify", name |-> a.ret, props |-> e.props,
                       caller |-> traits]
       /\ received' = AnalyticsDispatch(received, "identify")
       /\ window' = PluginDispatch(window, "identify")
       /\ lastOp' = "identifyAnonymousUser"
       /\ UNCHANGED <<now, lastRet, bootVars, userAgent, measurementId>>

\* The browser ends the session: sessionStorage starts empty in the next one
ClearSession ==
    /\ sessionStorage # EmptyStore
    /\ sessionStorage' = EmptyStore
    /\ lastOp' = "clearSession"
    /\ UNCHANGED <<localStorage, nextUuid, now, lastRet, sessionIds, dispatchVars, bootVars, userAgent>>

\* The clock advances
Tick ==
    /\ now < MaxTime
    /\ now' = now + 1
    /\ lastOp' = "tick"
    /\ UNCHANGED <<localStorage, sessionStorage, nextUuid, lastRet, sessionIds, dispatchVars, bootVars, userAgent>>

Next ==
    \/ GetAnonymousId
    \/ GetSessionId
    \/ \E event \in EventNames, properties \in CallerProps : TrackEvent(event, properties)
    \/ \E path \in Paths, properties \in CallerProps : TrackPage(path, properties)
    \/ \E userId \in UserIds, traits \in CallerProps : IdentifyUser(userId, traits)
    \/ ClearSession
    \/ Tick

Spec == Init /\ [][Next]_vars

\* getDeviceType() / getBrowserInfo() as identifyAnonymousUser calls them
GetDeviceType ==
    /\ lastRet' = getDeviceType(userAgent)
    /\ lastOp' = "getDeviceType"
    /\ UNCHANGED <<localStorage, sessionStorage, nextUuid, now, sessionIds, dispatchVars,
                   bootVars, userAgent>>

GetBrowserInfo ==
    /\ lastRet' = getBrowserInfo(userAgent)
    /\ lastOp' = "getBrowserInfo"
    /\ UNCHANGED <<localStorage, sessionStorage, nextUuid, now, sessionIds, dispatchVars,
                   bootVars, userAgent>>

\* The two classifiers, applied to every user agent while the clock runs
AgentInit ==
    /\ InitIdentity
    /\ InitDispatch
    /\ InitBoot
    /\ config = EmptyStore
    /\ userAgent \in AllUserAgents
    /\ InitPlugin

AgentNext ==
    \/ GetDeviceType
    \/ GetBrowserInfo
    \/ Tick

AgentSpec == AgentInit /\ [][AgentNext]_vars

\* The identity operations and the two helpers built on the tracking utilities
IdentityNext ==
    \/ GetAnonymousId
    \/ GetSessionId
    \/ \E error \in Errors, context \in Contexts, additionalData \in AdditionalData :
          TrackError(error, context, additionalData)
    \/ IdentifyAnonymousUser
    \/ ClearSession
    \/ Tick

IdentitySpec == IdentityInit /\ [][IdentityNext]_vars

(***************************************************************************)
(* Bootstrap operations                                                    *)
(***************************************************************************)
\* Mutant of Mount: the effect has no dependency array and runs again after
\* initializeAnalytics has settled
MountRepeated ==
    /\ bootPc # "awaiting"
    /\ bootPc' = "awaiting"
    /\ lastOp' = "mount"
    /\ UNCHANGED <<identityVars, dispatchVars, config, updateCalls, fetchResult,
                   isConfigLoaded, analyticsConfig, childrenRendered, loaderCalls,
                   loaderThrew, posthogInit, lastGet>>

\* useEffect runs initializeAnalytics, which calls loadRemoteConfig and
\* suspends on the fetch
Mount ==
    /\ bootPc = "idle"
    /\ bootPc' = "awaiting"
    /\ lastOp' = "mount"
    /\ UNCHANGED <<identityVars, dispatchVars, config, updateCalls, fetchResult,
                   isConfigLoaded, analyticsConfig, childrenRendered, loaderCalls,
                   loaderThrew, posthogInit, lastGet>>

\* Mutant of InitializeAnalyticsResume: the plugin's measurementId is read again from
\* the merged snapshot and its initialize is run again
InitializeAnalyticsResumeReconfigured(outcome, throws, initThrows) ==
    /\ bootPc = "awaiting"
    /\ LET r == loadRemoteConfig(config, outcome)
           c == ResolvedAnalyticsConfig(r.config)
           l == RunLoaders(c, throws, initThrows)
       IN /\ config' = r.config
          /\ updateCalls' = updateCalls + r.updated
          /\ measurementId' = getValue(r.config, "GA_TRACKING_ID", "")
          /\ window' = gaInitialize(measurementId', window)
          /\ IF r.threw
             THEN /\ bootPc' = "rejected"
                  /\ fetchResult' = [status |-> "threw", ret |-> EmptyStore, outcome |-> outcome]
                  /\ UNCHANGED <<isConfigLoaded, analyticsConfig, loaderCalls, loaderThrew,
                                 posthogInit>>
             ELSE /\ bootPc' = IF l.threw = {} THEN "done" ELSE "rejected"
                  /\ fetchResult' = [status |-> "returned", ret |-> r.ret, outcome |-> outcome]
                  /\ analyticsConfig' = c
                  /\ isConfigLoaded' = TRUE
                  /\ loaderCalls' = l.calls
                  /\ loaderThrew' = l.threw
                  /\ posthogInit' = l.posthog
    /\ lastOp' = "initializeAnalytics"
    /\ UNCHANGED <<identityVars, lastCall, received, childrenRendered, lastGet>>

\* The fetch settles: loadRemoteConfig finishes and, unless it threw,
\* initializeAnalytics runs to its end
InitializeAnalyticsResume(outcome, throws, initThrows) ==
    /\ bootPc = "awaiting"
    /\ LET r == loadRemoteConfig(config, outcome)
           c == ResolvedAnalyticsConfig(r.config)
           l == RunLoaders(c, throws, initThrows)
       IN /\ config' = r.config
          /\ updateCalls' = updateCalls + r.updated
          /\ IF r.threw
             THEN /\ bootPc' = "rejected"
                  /\ fetchResult' = [status |-> "threw", ret |-> EmptyStore, outcome |-> outcome]
                  /\ UNCHANGED <<isConfigLoaded, analyticsConfig, loaderCalls, loaderThrew,
                                 posthogInit>>
             ELSE /\ bootPc' = IF l.threw = {} THEN "done" ELSE "rejected"
                  /\ fetchResult' = [status |-> "returned", ret |-> r.ret, outcome |-> outcome]
                  /\ analyticsConfig' = c
                  /\ isConfigLoaded' = TRUE
                  /\ loaderCalls' = l.calls
                  /\ loaderThrew' = l.threw
                  /\ posthogInit' = l.posthog
    /\ lastOp' = "initializeAnalytics"
    /\ UNCHANGED <<identityVars, dispatchVars, childrenRendered, lastGet>>

\* Mutant of Render: the children are rendered without looking at isConfigLoaded
RenderUnguarded ==
    /\ ~childrenRendered
    /\ childrenRendered' = TRUE
    /\ lastOp' = "render"
    /\ UNCHANGED <<identityVars, dispatchVars, config, updateCalls, bootPc, fetchResult,
                   isConfigLoaded, analyticsConfig, loaderCalls, loaderThrew, posthogInit,
                   lastGet>>

\* AnalyticsProvider renders: null while the config is not loaded, else its children
Render ==
    /\ childrenRendered # isConfigLoaded
    /\ childrenRendered' = isConfigLoaded
    /\ lastOp' = "render"
    /\ UNCHANGED <<identityVars, dispatchVars, config, updateCalls, bootPc, fetchResult,
                   isConfigLoaded, analyticsConfig, loaderCalls, loaderThrew, posthogInit,
                   lastGet>>

\* The PostHog SDK finishes loading and calls the `loaded` callback
PostHogLoaded ==
    /\ posthogInit = "initialized"
    /\ posthogInit' = "loaded"
    /\ lastOp' = "postHogLoaded"
    /\ UNCHANGED <<identityVars, dispatchVars, config, updateCalls, bootPc, fetchResult,
                   isConfigLoaded, analyticsConfig, childrenRendered, loaderCalls,
                   loaderThrew, lastGet>>

BootNext ==
    \/ Mount
    \/ \E outcome \in FetchOutcomes, throws \in SUBSET ThrowingLoaders, initThrows \in BOOLEAN :
           InitializeAnalyticsResume(outcome, throws, initThrows)
    \/ Render
    \/ PostHogLoaded
    \/ \E event \in EventNames : TrackEvent(event, EmptyStore)
    \/ \E path \in Paths : TrackPage(path, EmptyStore)
    \/ \E userId \in UserIds : IdentifyUser(userId, EmptyStore)

BootSpec == BootInit /\ [][BootNext]_vars

\* Inputs of getValue
DefaultValues == {"", "fallback"}

\* A caller looks a key up: configLoader.getValue(key, defaultValue)
GetValue(key, defaultValue) ==
    /\ lastGet' = [key |-> key, defaultValue |-> defaultValue,
                   ret |-> getValue(config, key, defaultValue)]
    /\ lastOp' = "getValue"
    /\ UNCHANGED <<identityVars, dispatchVars, config, updateCalls, bootPc, fetchResult,
                   isConfigLoaded, analyticsConfig, childrenRendered, loaderCalls,
                   loaderThrew, posthogInit>>

\* The configuration on its own: the fetch, the merge and the lookups
ConfigNext ==
    \/ Mount
    \/ \E outcome \in FetchOutcomes, throws \in SUBSET ThrowingLoaders, initThrows \in BOOLEAN :
           InitializeAnalyticsResume(outcome, throws, initThrows)
    \/ \E key \in ConfigKeys, defaultValue \in DefaultValues : GetValue(key, defaultValue)

ConfigSpec == BootInit /\ [][ConfigNext]_vars

(***************************************************************************)
(* Properties                                                              *)
(***************************************************************************)
DispatchOps == {"trackEvent", "trackPage", "identifyUser"}

\* The value enrichEventProperties computes for a system field, read back
\* from the state right after the call
SystemValue(k) ==
    CASE k = "anonymousId" -> localStorage[ANONYMOUS_ID_KEY]
      [] k = "sessionId" -> sessionStorage[SESSION_ID_KEY]
      [] k = "timestamp" -> Val("ts", now)

\* C2 as stated: whenever the caller's bag has a key that is also a system
\* field, the dispatched payload carries the caller's value for that key.
C2_CallerWins ==
    lastOp \in DispatchOps =>
        \A k \in DOMAIN lastCall.caller \cap SystemFields :
            lastCall.props[k] = lastCall.caller[k]

\* C2 as amended: on a key shared with a system field the dispatched payload
\* carries the system value (the caller's value is replaced); every other
\* caller key is carried with the caller's value.
C2_SystemWins ==
    lastOp \in DispatchOps =>
        /\ \A k \in DOMAIN lastCall.caller \cap SystemFields :
               /\ lastCall.props[k] = SystemValue(k)
               /\ lastCall.props[k] # lastCall.caller[k]
        /\ \A k \in DOMAIN lastCall.caller \ SystemFields :
               lastCall.props[k] = lastCall.caller[k]

C2_Witness ==
    /\ lastOp = "trackEvent"
    /\ DOMAIN lastCall.caller = {"sessionId", "feature"}

\* C3: the payload of every trackEvent, trackPage and identifyUser call
\* carries the anonymousId held in localStorage, the sessionId held in
\* sessionStorage and the timestamp of the call, the first call on empty
\* stores included.
C3_PayloadCarriesIdentity ==
    lastOp \in DispatchOps =>
        /\ SystemFields \subseteq DOMAIN lastCall.props
        /\ HasItem(localStorage, ANONYMOUS_ID_KEY)
        /\ lastCall.props["anonymousId"] = localStorage[ANONYMOUS_ID_KEY]
        /\ HasItem(sessionStorage, SESSION_ID_KEY)
        /\ lastCall.props["sessionId"] = sessionStorage[SESSION_ID_KEY]
        /\ lastCall.props["timestamp"] = Val("ts", now)

\* the first call of a run, made on empty stores
C3_Witness ==
    /\ lastOp = "trackPage"
    /\ nextUuid = 2
    /\ lastCall.props["anonymousId"] = Val("anon", 1)
    /\ lastCall.props["sessionId"] = Val("session", 2)

\* C4: a stored anonymousId is never overwritten or removed by any
\* operation, every getAnonymousId call returns the stored id, and a call
\* that finds an id draws no new one.
C4_AnonymousIdImmutable ==
    [][/\ HasItem(localStorage, ANONYMOUS_ID_KEY) =>
              /\ HasItem(localStorage', ANONYMOUS_ID_KEY)
              /\ localStorage'[ANONYMOUS_ID_KEY] = localStorage[ANONYMOUS_ID_KEY]
       /\ lastOp' = "getAnonymousId" =>
              /\ HasItem(localStorage', ANONYMOUS_ID_KEY)
              /\ lastRet' = localStorage'[ANONYMOUS_ID_KEY]
              /\ HasItem(localStorage, ANONYMOUS_ID_KEY) => nextUuid' = nextUuid]_vars

\* getAnonymousId called again after other operations drew further uuids
C4_Witness ==
    /\ lastOp = "getAnonymousId"
    /\ lastRet = Val("anon", 1)
    /\ nextUuid = MaxUuid

\* C5: getSessionId generates a session id exactly when sessionStorage holds
\* none: a call that finds one returns it and changes nothing, a call that
\* finds none stores and returns an id that was never generated before, and
\* no operation generates an id while one is stored.
C5_SessionIdRegeneratedIffAbsent ==
    [][/\ (lastOp' = "getSessionId" /\ HasItem(sessionStorage, SESSION_ID_KEY)) =>
              /\ sessionStorage' = sessionStorage
              /\ lastRet' = sessionStorage[SESSION_ID_KEY]
              /\ sessionIds' = sessionIds
       /\ (lastOp' = "getSessionId" /\ ~HasItem(sessionStorage, SESSION_ID_KEY)) =>
              /\ HasItem(sessionStorage', SESSION_ID_KEY)
              /\ lastRet' = sessionStorage'[SESSION_ID_KEY]
              /\ lastRet' \notin sessionIds
              /\ sessionIds' = sessionIds \cup {lastRet'}
       /\ sessionIds' # sessionIds => ~HasItem(sessionStorage, SESSION_ID_KEY)]_vars

\* a second session: getSessionId returned a new id after the store was cleared
C5_Witness ==
    /\ lastOp = "getSessionId"
    /\ Cardinality(sessionIds) = 2
    /\ lastRet \in sessionIds

\* C6: a getSessionId call that generates a session id raises the stored
\* sessionCount by exactly 1, and a call that finds a session id leaves
\* localStorage as it was; inside enrichEventProperties the same holds
\* relative to the storage getAnonymousId left.
C6_SessionCountIncrement ==
    [][/\ (lastOp' = "getSessionId" /\ sessionIds' # sessionIds) =>
              StoredSessionCount(localStorage') = StoredSessionCount(localStorage) + 1
       /\ (lastOp' = "getSessionId" /\ sessionIds' = sessionIds) =>
              localStorage' = localStorage
       /\ lastOp' \in DispatchOps =>
              LET mid == getAnonymousId(localStorage, nextUuid, now).ls
              IN IF sessionIds' # sessionIds
                 THEN StoredSessionCount(localStorage') = StoredSessionCount(mid) + 1
                 ELSE localStorage' = mid]_vars

\* the second session of a returning visitor has been counted
C6_Witness ==
    /\ lastOp = "getSessionId"
    /\ Cardinality(sessionIds) = 2
    /\ StoredSessionCount(localStorage) > 1

\* C7 as stated: once the configuration has resolved with an empty PostHog
\* apiKey or hostUrl, the posthog plugin is not among the plugins of the
\* Analytics instance and none of its handlers has been invoked.
C7_InactiveProviderNeverRegistered ==
    (bootPc = "done"
     /\ (analyticsConfig.postHog.apiKey = "" \/ analyticsConfig.postHog.hostUrl = "")) =>
        /\ "posthog" \notin Plugins
        /\ received["posthog"] = {}

\* C8 as stated: once the fetch has failed or returned nothing and
\* initializeAnalytics has settled, the config-loaded flag is true.
C8_BootstrapSurvivesFetchFailure ==
    (bootPc \in {"done", "rejected"}
     /\ (fetchResult.outcome.error \/ ~fetchResult.outcome.hasData)) =>
        isConfigLoaded

\* C9: loadRemoteConfig throws exactly when the fetch reports an error or
\* returns no data, and then leaves the configuration alone without calling
\* updateRemoteConfig; otherwise it calls updateRemoteConfig once and returns
\* the response.
C9_LoadRemoteConfigSurfacesErrors ==
    [][(bootPc = "awaiting" /\ bootPc' # "awaiting") =>
          LET o == fetchResult'.outcome
          IN /\ (o.error \/ ~o.hasData) <=> (fetchResult'.status = "threw")
             /\ fetchResult'.status = "threw" =>
                    /\ config' = config
                    /\ updateCalls' = updateCalls
             /\ fetchResult'.status = "returned" =>
                    /\ fetchResult'.ret = o.data
                    /\ updateCalls' = updateCalls + 1]_vars

\* the fetch reported no error but returned no data
C9_Witness ==
    /\ fetchResult.status = "threw"
    /\ ~fetchResult.outcome.error
    /\ ~fetchResult.outcome.hasData
    /\ updateCalls = 0

\* C10: the children are rendered only after loadRemoteConfig has returned,
\* the flag is set as soon as it has, and a render that shows the children
\* is possible whenever the flag is set, whatever the providers' state.
C10_RenderGatedOnConfigOnly ==
    /\ childrenRendered => fetchResult.status = "returned"
    /\ fetchResult.status = "returned" => isConfigLoaded
    /\ (isConfigLoaded /\ ~childrenRendered) => ENABLED Render

\* the children are on screen while PostHog has not finished initializing
C10_Witness ==
    /\ childrenRendered
    /\ posthogInit = "initialized"

\* C11 as stated: when a loader called by initializeAnalytics has thrown,
\* every other activatable provider has still had its loader invoked.
C11_InitFailuresIsolated ==
    (bootPc \in {"done", "rejected"}
     /\ fetchResult.status = "returned"
     /\ (loaderThrew # {} \/ posthogInit = "threw")) =>
        LoadersFor(analyticsConfig) \subseteq loaderCalls

\* The lifecycle state of a provider, read off what initializeAnalytics and
\* the SDK callback have done: a loader that was called and returned leaves
\* its provider Pending, a loader that threw leaves it Failed, and PostHog
\* is Ready once posthog.init has called `loaded`.
ProviderNames == {"googleAnalytics", "clarity", "postHog"}

ProviderState(p, calls, threw, posthog) ==
    IF p = "postHog"
    THEN CASE posthog = "initialized" -> "Pending"
           [] posthog = "loaded" -> "Ready"
           [] posthog = "threw" -> "Failed"
           [] OTHER -> "Unregistered"
    ELSE IF p \in threw THEN "Failed"
         ELSE IF p \in calls THEN "Pending"
         ELSE "Unregistered"

\* C13: a provider that is Ready stays Ready and a provider that is Failed
\* stays Failed in every step; a Pending provider stays Pending or becomes
\* Ready or Failed.
C13_TerminalProviderStates ==
    [][\A p \in ProviderNames :
          LET before == ProviderState(p, loaderCalls, loaderThrew, posthogInit)
              after == ProviderState(p, loaderCalls', loaderThrew', posthogInit')
          IN /\ before = "Ready" => after = "Ready"
             /\ before = "Failed" => after = "Failed"
             /\ before = "Pending" => after \in {"Pending", "Ready", "Failed"}]_vars

\* PostHog became Ready and tracking went on afterwards
C13_Witness ==
    /\ ProviderState("postHog", loaderCalls, loaderThrew, posthogInit) = "Ready"
    /\ lastOp = "trackEvent"

\* C15 as stated: while PostHog is Failed (posthog.init threw) no step
\* delivers a track, page or identify call to the posthog plugin.
C15_FailedProviderReceivesNothing ==
    [][posthogInit = "threw" => received'["posthog"] = received["posthog"]]_vars

C17_DefaultUnlessStored ==
    lastOp = "getValue" =>
        lastGet.ret = IF lastGet.key \notin DOMAIN config
                      THEN lastGet.defaultValue
                      ELSE config[lastGet.key]

\* C17 as amended: getValue looks the key up in the current snapshot (the
\* local defaults until the remote response has been merged) and returns
\* the supplied default whenever the key is absent or its stored value is
\* the empty string, and otherwise the stored value; it changes nothing.
C17_DefaultUnlessNonEmpty ==
    lastOp = "getValue" =>
        lastGet.ret = IF lastGet.key \notin DOMAIN config THEN lastGet.defaultValue
                      ELSE IF config[lastGet.key] = "" THEN lastGet.defaultValue
                      ELSE config[lastGet.key]

\* a key stored with the empty string was looked up with a non-empty default
C17_Witness ==
    /\ lastOp = "getValue"
    /\ lastGet.key \in DOMAIN config
    /\ config[lastGet.key] = ""
    /\ lastGet.defaultValue = "fallback"

\* C18: once loadRemoteConfig has settled, no step changes the snapshot,
\* calls updateRemoteConfig or fetches again.
C18_SnapshotImmutableAfterResolve ==
    [][fetchResult.status # "none" =>
          /\ config' = config
          /\ updateCalls' = updateCalls
          /\ fetchResult' = fetchResult
          /\ bootPc' = bootPc]_vars

\* the configuration resolved, PostHog finished loading and an event was tracked
C18_Witness ==
    /\ fetchResult.status = "returned"
    /\ updateCalls = 1
    /\ posthogInit = "loaded"
    /\ lastOp = "trackEvent"

\* C19: trackError issues one track event whose kind is a reserved event kind defined in
\* the event catalog, with errorCode = error.name, errorMessage, errorStack, context and
\* every entry of additionalData among its properties.
C19_TrackErrorUsesCatalogKind ==
    lastOp = "trackError" =>
        /\ lastCall.kind = "track"
        /\ lastCall.name \in EventCatalog
        /\ \E error \in Errors, context \in Contexts, additionalData \in AdditionalData :
              /\ lastCall.props["errorCode"] = error.name
              /\ lastCall.props["errorMessage"] = error.message
              /\ lastCall.props["errorStack"] = error.stack
              /\ lastCall.props["context"] = context
              /\ lastCall.caller = ErrorProperties(error, context, additionalData)
              /\ \A k \in DOMAIN additionalData : lastCall.props[k] = additionalData[k]

\* C20: identifyAnonymousUser forwards an identify call whose userId is the stored
\* anonymousId and whose traits carry firstSeen, lastSeen, sessionCount equal to the
\* stored durable counter, deviceType, browserInfo, the current sessionId and
\* isAnonymous = true.
C20_IdentifyAnonymousUserTraits ==
    lastOp = "identifyAnonymousUser" =>
        /\ lastCall.kind = "identify"
        /\ HasItem(localStorage, ANONYMOUS_ID_KEY)
        /\ lastCall.name = localStorage[ANONYMOUS_ID_KEY]
        /\ {"firstSeen", "lastSeen", "sessionCount", "deviceType", "browserInfo",
            "sessionId", "isAnonymous"} \subseteq DOMAIN lastCall.props
        /\ HasItem(localStorage, "firstSeen")
        /\ lastCall.props["firstSeen"] = localStorage["firstSeen"]
        /\ lastCall.props["lastSeen"] = Val("iso", now)
        /\ HasItem(localStorage, "sessionCount")
        /\ lastCall.props["sessionCount"] = Number(localStorage["sessionCount"])
        /\ lastCall.props["deviceType"] = getDeviceType(userAgent)
        /\ lastCall.props["browserInfo"] = getBrowserInfo(userAgent)
        /\ HasItem(sessionStorage, SESSION_ID_KEY)
        /\ lastCall.props["sessionId"] = sessionStorage[SESSION_ID_KEY]
        /\ lastCall.props["isAnonymous"] = TRUE

\* A first call on empty stores: both identifiers are generated inside the call, and the
\* counter forwarded is the one getSessionId has just incremented
C20_Witness ==
    /\ lastOp = "identifyAnonymousUser"
    /\ lastCall.kind = "identify"
    /\ nextUuid = 2
    /\ lastCall.props["sessionCount"] = 2
    /\ lastCall.props["deviceType"] = "tablet"

\* C21: device classification is an ordered match: 'tablet' whenever the tablet pattern
\* matches, even if the mobile pattern matches too, otherwise 'mobile' when the mobile
\* pattern matches, otherwise 'desktop'; the result is a function of the user agent alone.
C21_TabletBeforeMobile ==
    lastOp = "getDeviceType" =>
        /\ TabletPattern(userAgent) => lastRet = "tablet"
        /\ (~TabletPattern(userAgent) /\ MobilePattern(userAgent)) => lastRet = "mobile"
        /\ (~TabletPattern(userAgent) /\ ~MobilePattern(userAgent)) => lastRet = "desktop"

\* An iPad announcing itself as Mobile Safari: both patterns match
C21_Witness ==
    /\ lastOp = "getDeviceType"
    /\ \E i \in 1..Len(userAgent) : userAgent[i].w = "iPad"
    /\ \E i \in 1..Len(userAgent) : userAgent[i].w = "Mobile"
    /\ lastRet = "tablet"

\* C22: browser classification reports the first signature, in the order Chrome, Firefox,
\* Safari, Edge, that matches the user agent, and "Unknown Browser" when none matches.
C22_FirstSignatureWins ==
    lastOp = "getBrowserInfo" =>
        LET chrome == \E i \in 1..Len(userAgent) : userAgent[i] = Token("Chrome", "120.0")
            firefox == \E i \in 1..Len(userAgent) : userAgent[i] = Token("Firefox", "121.0")
            safari == \E i, j \in 1..Len(userAgent) :
                         /\ i < j
                         /\ userAgent[i] = Token("Version", "17.0")
                         /\ userAgent[j].w = "Safari"
            edge == \E i \in 1..Len(userAgent) : userAgent[i] = Token("Edg", "120.0")
        IN lastRet = IF chrome THEN <<"Chrome", "120.0">>
                     ELSE IF firefox THEN <<"Firefox", "121.0">>
                     ELSE IF safari THEN <<"Safari", "17.0">>
                     ELSE IF edge THEN <<"Edge", "120.0">>
                     ELSE <<"Unknown Browser">>

\* A Chromium Edge user agent carries both the Chrome and the Edg signature
C22_Witness ==
    /\ lastOp = "getBrowserInfo"
    /\ \E i, j \in 1..Len(userAgent) : userAgent[i].w = "Chrome" /\ userAgent[j].w = "Edg"
    /\ lastRet = <<"Chrome", "120.0">>

C24_GoogleAnalyticsInactiveWithoutId ==
    measurementId = "" =>
        /\ ~window.script
        /\ ~window.gtag
        /\ window.dataLayer = {}

\* The plugin's page and track handlers have both run while the measurementId is empty
C24_Witness ==
    /\ measurementId = ""
    /\ {"initialize", "page", "track"} \subseteq received["google-analytics"]
    /\ lastOp = "trackEvent"
    /\ window = EmptyWindow

\* C25: the measurementId of the registered googleAnalyticsPlugin is the value
\* getValue('GA_TRACKING_ID') returned when the analytics module was evaluated, and no
\* later step, the completion of loadRemoteConfig included, changes it or the plugin's
\* activation (injected script, window.gtag).
C25_MeasurementIdFixedAtEvaluation ==
    /\ measurementId = getValue(config, "GA_TRACKING_ID", "")
    /\ [][/\ measurementId' = measurementId
          /\ window'.gtag = window.gtag
          /\ window'.script = window.script]_vars

\* The remote response brought a tracking id the local defaults did not have: bootstrap
\* loads Google Analytics with it while the plugin keeps its empty measurementId
C25_Witness ==
    /\ fetchResult.status = "returned"
    /\ analyticsConfig.googleAnalytics.trackingId = "remote"
    /\ "googleAnalytics" \in loaderCalls
    /\ measurementId = ""
    /\ ~window.gtag
    /\ lastOp = "trackEvent"

\* C26: trackPage(path, properties) dispatches a page payload whose path equals the path
\* argument, for every properties bag, one that has a key named 'path' included.
C26_PagePathIsArgument ==
    lastOp = "trackPage" =>
        /\ lastCall.kind = "page"
        /\ "path" \in DOMAIN lastCall.props
        /\ lastCall.props["path"] = lastCall.name

\* C27: after any sequence of getAnonymousId and getSessionId calls and session restarts
\* on an initially empty durable store, the stored sessionCount equals the number of
\* session ids generated so far, whichever of the two functions is called first.
C27_SessionCountEqualsSessions ==
    StoredSessionCount(localStorage) = Cardinality(sessionIds)

====
